---- MODULE Spec2Model ----
(***************************************************************************)
(* Model of the DVM scheduler: WorkDay/Shift (src/bin/workday.py) and the  *)
(* Scheduler (src/bin/scheduler.py): construction of the padded Mon-Sat    *)
(* schedule, the greedy per-day cascade of generateSchedule, and the       *)
(* first-improvement hill climbing over same-day shift swaps.              *)
(*                                                                         *)
(* calendar.monthrange is modelled by the pair (firstWeekday, numDays);    *)
(* the month length is bounded by NumDays so that the schedule is one to   *)
(* three Mon-Sat weeks long.                                               *)
(***************************************************************************)
EXTENDS Integers, Sequences, FiniteSets, TLC

(* ----------------------------- bounds ---------------------------------- *)
\* number of days of the modelled target month
NumDays == 8
\* largest Saturday-off ordinal offered to the constructor
MaxSatOff == 2
\* closed days and vacation days are drawn from the dates 1..MaxReqDate
MaxReqDate == 1

(* ------------------------- workday.py: enums --------------------------- *)
LO == 0
LP == 1
EJS == 2
JA == 3
EDS == 4
DVM == {LO, LP, EJS, JA, EDS}

\* Optional[int] fields hold None when unset
None == -1

APPOINTMENT == "APPOINTMENT"
SURGERY == "SURGERY"
BOTH == "BOTH"
NoType == "None"
DAY_TYPE == {APPOINTMENT, SURGERY, BOTH}

\* (start, end) pairs; the empty tuple stands for vacation = None
NoVacation == <<>>

LUNCH_LENGTH(dayNum) ==
    IF dayNum \in {0, 1} THEN 2 ELSE 1

STANDARD_OFF(weekday) ==
    CASE weekday = 0 -> {LP, EJS}
      [] weekday = 1 -> {JA}
      [] weekday = 2 -> {LO, EDS}
      [] weekday = 4 -> {LO}
      [] OTHER -> {}

(* ------------------------- workday.py: Shift --------------------------- *)
Shift(dayNum) ==
    [dayNum |-> dayNum, clockIn |-> None, clockOut |-> None,
     lunchStart |-> None, dayType |-> NoType, vacation |-> NoVacation,
     standardOff |-> FALSE]

\* mutant of workedHours: the lunch deduction is forgotten
workedHoursNoLunch(sh) ==
    IF sh.clockIn = None \/ sh.clockOut = None THEN 0
    ELSE sh.clockOut - sh.clockIn + 1

workedHours(sh) ==
    IF sh.clockIn = None \/ sh.clockOut = None THEN 0
    ELSE LET total == sh.clockOut - sh.clockIn + 1
         IN  IF sh.clockOut > 13
             THEN total - (IF sh.dayNum > 1 THEN 1 ELSE 2)
             ELSE total

(* ------------------------ workday.py: WorkDay -------------------------- *)
WorkDay(weekday, date, month, isOpen) ==
    [weekday |-> weekday, date |-> date, month |-> month, isOpen |-> isOpen,
     shifts |-> [d \in DVM |->
                   [Shift(weekday) EXCEPT
                      !.standardOff = (d \in STANDARD_OFF(weekday))]]]

ClockTimesValid(clockIn, clockOut) ==
    /\ 8 <= clockIn /\ clockIn < 19
    /\ 8 < clockOut /\ clockOut <= 19
    /\ clockIn < clockOut

VacationOverlaps(sh, clockIn, clockOut) ==
    /\ sh.vacation # NoVacation
    /\ clockIn < sh.vacation[2]
    /\ clockOut > sh.vacation[1]

\* mutant of setVetRaises: the EDS surgery check is missing
setVetRaisesNoRoleCheck(day, dvm, clockIn, clockOut, dayType) ==
    \/ ~ClockTimesValid(clockIn, clockOut)
    \/ day.shifts[dvm].standardOff
    \/ VacationOverlaps(day.shifts[dvm], clockIn, clockOut)
    \/ dayType \notin DAY_TYPE \cup {NoType}
    \/ (dvm # JA /\ dvm # LO /\ dayType = BOTH)

\* TRUE when setVet raises ValueError
setVetRaises(day, dvm, clockIn, clockOut, dayType) ==
    \/ ~ClockTimesValid(clockIn, clockOut)
    \/ day.shifts[dvm].standardOff
    \/ VacationOverlaps(day.shifts[dvm], clockIn, clockOut)
    \/ dayType \notin DAY_TYPE \cup {NoType}
    \/ (dvm = EDS /\ dayType = SURGERY)
    \/ (dvm # JA /\ dvm # LO /\ dayType = BOTH)

\* the WorkDay after setVet returns or raises
setVet(day, dvm, clockIn, clockOut, dayType, lunchStart) ==
    IF setVetRaises(day, dvm, clockIn, clockOut, dayType) THEN day
    ELSE [day EXCEPT !.shifts[dvm].clockIn = clockIn,
                     !.shifts[dvm].clockOut = clockOut,
                     !.shifts[dvm].dayType = dayType,
                     !.shifts[dvm].lunchStart = lunchStart]

setVacationRaises(startHour, endHour) ==
    ~(0 <= startHour /\ startHour < endHour /\ endHour <= 24)

setVacation(day, dvm, startHour, endHour) ==
    IF setVacationRaises(startHour, endHour) THEN day
    ELSE [day EXCEPT !.shifts[dvm].vacation = <<startHour, endHour>>]

\* called with valid clock times only (ClockTimesValid), else it raises
ableToSchedule(day, dvm, clockIn, clockOut) ==
    /\ ~day.shifts[dvm].standardOff
    /\ ~VacationOverlaps(day.shifts[dvm], clockIn, clockOut)

isWorking(day, dvm) ==
    day.shifts[dvm].clockIn # None

getLunchLength(day, clockOut) ==
    IF clockOut < 13 THEN 0
    ELSE IF day.weekday > 1 THEN 1 ELSE 2

getNumApptsOnShift(day) ==
    Cardinality({d \in DVM : day.shifts[d].dayType = APPOINTMENT})

(* --------------------- scheduler.py: construction ---------------------- *)
VARIABLES
    args,              \* constructor arguments closedDict, vacationArray, prevDays
    firstWeekday,      \* self.firstWeekday, from calendar.monthrange
    satSurgeon,        \* self.satSurgeon
    satSurgeonDayOff,  \* self.satSurgeonDayOff
    schedule,          \* self.schedule: sequence of WorkDay
    saturdayRecord,    \* self.saturdayRecord
    weeklyHours,       \* self.weeklyHours
    monthlyHours,      \* self.monthlyHours
    pc,                \* position in __init__ / generateSchedule / _hillClimb
    dayIdx,            \* generateSchedule: index of `day` in self.schedule
    week,              \* generateSchedule: indices of the days batched in `week`
    wpos,              \* _processWeek: position of `day` within the batch
    rule,              \* _scheduleDay: the rule of the cascade that runs next
    cur,               \* _hillClimb: `current` (schedule and hour tallies)
    bestScore,         \* _hillClimb: bestScore
    call               \* the last direct WorkDay call and the shift before it

vars == <<args, firstWeekday, satSurgeon, satSurgeonDayOff, schedule,
          saturdayRecord, weeklyHours, monthlyHours, pc, dayIdx, week, wpos,
          rule, cur, bestScore, call>>

numDays == NumDays

monthStartOffset(fw) ==
    IF fw < 6 THEN fw ELSE 0

lastWeekday(fw) ==
    (fw + numDays - 1) % 7

monthEndOffset(fw) ==
    IF lastWeekday(fw) = 6 THEN 0
    ELSE IF 5 - lastWeekday(fw) > 0 THEN 5 - lastWeekday(fw) ELSE 0

\* calendar.weekday(nextYear, nextMonth, pad)
NextMonthWeekday(fw, pad) ==
    (fw + numDays + pad - 1) % 7

ZeroHours == [d \in DVM |-> 0]

\* the constructor raises on a wrong number of prior-month days
PrevDaysRejected(fw, prevDays) ==
    /\ monthStartOffset(fw) > 0
    /\ Len(prevDays) # monthStartOffset(fw)

RECURSIVE CurrentMonthDays(_, _, _)
CurrentMonthDays(fw, closedDict, day) ==
    IF day > numDays THEN <<>>
    ELSE LET wkday == (fw + day - 1) % 7
         IN  IF wkday = 6 THEN CurrentMonthDays(fw, closedDict, day + 1)
             ELSE <<WorkDay(wkday, day, "target", day \notin closedDict)>>
                  \o CurrentMonthDays(fw, closedDict, day + 1)

RECURSIVE TrailingDays(_, _)
TrailingDays(fw, pad) ==
    IF pad > monthEndOffset(fw) THEN <<>>
    ELSE LET wkday == NextMonthWeekday(fw, pad)
         IN  IF wkday < 6
             THEN <<WorkDay(wkday, pad, "next", TRUE)>> \o TrailingDays(fw, pad + 1)
             ELSE TrailingDays(fw, pad + 1)

\* one worker's requests, applied in list order
RECURSIVE ApplyVacationList(_, _, _, _)
ApplyVacationList(sched, fw, dvm, vacs) ==
    IF vacs = <<>> THEN sched
    ELSE LET idx == (Head(vacs)[1] - 1) + monthStartOffset(fw)
             nxt == IF 0 <= idx /\ idx < Len(sched)
                    THEN [sched EXCEPT ![idx + 1] =
                            setVacation(@, dvm, Head(vacs)[2], Head(vacs)[3])]
                    ELSE sched
         IN  ApplyVacationList(nxt, fw, dvm, Tail(vacs))

RECURSIVE ApplyVacations(_, _, _, _)
ApplyVacations(sched, fw, vacationArray, dvm) ==
    IF dvm > EDS THEN sched
    ELSE ApplyVacations(ApplyVacationList(sched, fw, dvm, vacationArray[dvm]),
                        fw, vacationArray, dvm + 1)

BuildSchedule(fw, closedDict, vacationArray, prevDays) ==
    ApplyVacations(
        (IF monthStartOffset(fw) > 0 THEN prevDays ELSE <<>>)
            \o CurrentMonthDays(fw, closedDict, 1)
            \o TrailingDays(fw, 1),
        fw, vacationArray, LO)

(* ------------------------ constructor arguments ------------------------ *)
\* the caller's prior-month tail: fresh open days Monday, Tuesday, ...
PrevDaysOf(n) ==
    [i \in 1..n |-> WorkDay(i - 1, numDays - n + i, "prev", TRUE)]

VacationWindows == {<<0, 24>>, <<14, 20>>}

NoVacations == [d \in DVM |-> <<>>]

\* at most one closed day or one vacation request, on a date 1..MaxReqDate
ArgChoices ==
    {[closedDict |-> {}, vacationArray |-> NoVacations]}
    \cup {[closedDict |-> {c}, vacationArray |-> NoVacations]
            : c \in 1..MaxReqDate}
    \cup {[closedDict |-> {},
           vacationArray |-> [NoVacations EXCEPT ![r[1]] = <<<<r[2], r[3][1], r[3][2]>>>>]]
            : r \in DVM \X (1..MaxReqDate) \X VacationWindows}

(* ------------------- scheduler.py: the greedy cascade ------------------ *)
openHour == 8

lastThroughHour(day) ==
    IF day.weekday < 2 THEN 19 ELSE 17

\* the day being scheduled and the counters the rules update
Ctx ==
    [day |-> schedule[week[wpos]], weeklyHours |-> weeklyHours,
     monthlyHours |-> monthlyHours, saturdayRecord |-> saturdayRecord,
     raised |-> FALSE]

canAddToSchedule(c, dvm, start, end) ==
    /\ ableToSchedule(c.day, dvm, start, end)
    /\ LET hours == end - start + 1 - getLunchLength(c.day, end)
       IN  ~(c.weeklyHours[dvm] + hours > 40)

\* day.setVet(...); hrs = workedHours + bonus; both counters += hrs
PlaceWith(c, dvm, start, end, dayType, bonus) ==
    IF setVetRaises(c.day, dvm, start, end, dayType)
    THEN [c EXCEPT !.raised = TRUE]
    ELSE LET nd == setVet(c.day, dvm, start, end, dayType, None)
             hrs == workedHours(nd.shifts[dvm]) + bonus
         IN  [c EXCEPT !.day = nd,
                       !.weeklyHours[dvm] = @ + hrs,
                       !.monthlyHours[dvm] = @ + hrs]

Place(c, dvm, start, end, dayType) ==
    PlaceWith(c, dvm, start, end, dayType, 0)

\* Wednesday and Friday: _scheduleDay returns before any rule runs
ReturnsEarly(day) ==
    day.weekday \in {2, 4}

LOFixedRule(c) ==
    LET dayType == IF c.day.weekday = 1 THEN BOTH ELSE APPOINTMENT
    IN  IF c.day.weekday \in {0, 1, 3}
           /\ ableToSchedule(c.day, LO, openHour, lastThroughHour(c.day))
        THEN Place(c, LO, openHour, lastThroughHour(c.day), dayType)
        ELSE c

JABothRule(c) ==
    IF c.day.weekday = 0
       /\ canAddToSchedule(c, JA, openHour, lastThroughHour(c.day))
    THEN Place(c, JA, openHour, lastThroughHour(c.day), BOTH)
    ELSE c

LPFridayRule(c) ==
    IF c.day.weekday = 4 /\ canAddToSchedule(c, LP, openHour, openHour + 7)
    THEN PlaceWith(c, LP, openHour, openHour + 7, SURGERY, 1)
    ELSE c

\* Python truth value of an Optional[DVM]: None and DVM.LO (= 0) are false
Truthy(dvm) ==
    dvm # None /\ dvm # 0

PrimarySurgeon(weekday) ==
    CASE weekday = 0 -> JA
      [] weekday = 1 -> LO
      [] weekday = 3 -> EJS
      [] weekday = 4 -> LP
      [] OTHER -> None

RECURSIVE FirstCandidate(_, _)
FirstCandidate(c, cands) ==
    IF cands = <<>> THEN None
    ELSE IF Head(cands) # EDS
            /\ canAddToSchedule(c, Head(cands), openHour, openHour + 5)
         THEN Head(cands)
         ELSE FirstCandidate(c, Tail(cands))

RoutineSurgeonRule(c) ==
    IF c.day.weekday = 2 THEN c
    ELSE LET primary == PrimarySurgeon(c.day.weekday)
             surgeon ==
                 IF Truthy(primary) /\ primary # EDS
                    /\ canAddToSchedule(c, primary, openHour, openHour + 5)
                 THEN primary
                 ELSE FirstCandidate(c, <<LP, LO, EJS, JA>>)
         IN  IF Truthy(surgeon)
             THEN Place(c, surgeon, openHour, openHour + 5, SURGERY)
             ELSE c

\* sorted(DVM, key=lambda d: self.monthlyHours[d.value]): stable
SortedByHours(hours) ==
    LET rank(d) == Cardinality({e \in DVM :
                       \/ hours[e] < hours[d]
                       \/ (hours[e] = hours[d] /\ e < d)}) + 1
    IN  [i \in 1..Cardinality(DVM) |-> CHOOSE d \in DVM : rank(d) = i]

\* ordinal = len(prevSats) + 1
SaturdayOrdinal(sched, day) ==
    Cardinality({i \in 1..Len(sched) :
                    sched[i].weekday = 5 /\ sched[i].date < day.date}) + 1

SaturdaySurgeonRule(c) ==
    LET ordinal == SaturdayOrdinal(schedule, c.day)
    IN  IF ordinal # satSurgeonDayOff
           /\ canAddToSchedule(c, satSurgeon, openHour, openHour + 5)
        THEN LET p == Place(c, satSurgeon, openHour, openHour + 5, SURGERY)
             IN  IF p.raised THEN p
                 ELSE [p EXCEPT !.saturdayRecord[satSurgeon] = Append(@, ordinal)]
        ELSE c

\* the inner `for d in sorted(...)` of the three appointment loops; st holds
\* the context and the remaining count (needed / extra)
RECURSIVE FillInner(_, _, _, _, _, _)
FillInner(st, order, k, start, end, loop) ==
    IF k > Len(order) THEN st
    ELSE LET d == order[k]
             c == st.c
         IN  IF loop = "needed" /\ st.count = 0 THEN st
             ELSE IF isWorking(c.day, d) \/ (loop = "saturday" /\ d = satSurgeon)
             THEN FillInner(st, order, k + 1, start, end, loop)
             ELSE IF canAddToSchedule(c, d, start, end)
             THEN LET p == Place(c, d, start, end, APPOINTMENT)
                      q == IF loop = "saturday"
                           THEN [p EXCEPT !.saturdayRecord[d] =
                                   Append(@, SaturdayOrdinal(schedule, c.day))]
                           ELSE p
                  IN  FillInner([c |-> q, count |-> st.count - 1],
                                order, k + 1, start, end, loop)
             ELSE FillInner(st, order, k + 1, start, end, loop)

\* the outer `for start, end in [(8, last), (8, 14)]`
FillLoop(c, count, loop) ==
    LET s0 == [c |-> c, count |-> count]
        s1 == IF loop # "needed" /\ s0.count = 0 THEN s0
              ELSE FillInner(s0, SortedByHours(c.monthlyHours), 1,
                             openHour, lastThroughHour(c.day), loop)
        s2 == IF s1.count = 0 THEN s1
              ELSE FillInner(s1, SortedByHours(s1.c.monthlyHours), 1,
                             openHour, openHour + 6, loop)
    IN  s2.c

SaturdayAppointmentsRule(c) ==
    FillLoop(c, 2, "saturday")

AppointmentsRule(c) ==
    FillLoop(c, 2, "needed")

ExtraAppointmentRule(c) ==
    FillLoop(c, 1, "extra")

RECURSIVE FallbackInner(_, _, _)
FallbackInner(c, order, k) ==
    IF k > Len(order) \/ getNumApptsOnShift(c.day) >= 2 THEN c
    ELSE IF ~isWorking(c.day, order[k])
            /\ canAddToSchedule(c, order[k], openHour, lastThroughHour(c.day))
         THEN FallbackInner(Place(c, order[k], openHour, lastThroughHour(c.day),
                                  APPOINTMENT), order, k + 1)
         ELSE FallbackInner(c, order, k + 1)

FallbackRule(c) ==
    IF getNumApptsOnShift(c.day) < 2
    THEN FallbackInner(c, SortedByHours(c.monthlyHours), 1)
    ELSE c

\* position of dvm in sorted(vets, key=(d != LP, monthlyHours)), from 0
StaggerIndex(vets, hours, dvm) ==
    Cardinality({e \in vets :
        \/ (e = LP /\ dvm # LP)
        \/ ((e = LP) = (dvm = LP) /\ hours[e] < hours[dvm])
        \/ ((e = LP) = (dvm = LP) /\ hours[e] = hours[dvm] /\ e < dvm)})

_staggerLunches(c) ==
    LET windowStart == 12
        windowEnd == IF c.day.weekday < 2 THEN 14 ELSE 13
        vets == {d \in DVM : /\ c.day.shifts[d].clockOut # None
                             /\ c.day.shifts[d].clockOut > 14
                             /\ c.day.shifts[d].dayType # SURGERY}
        lunch(d) == IF windowStart + StaggerIndex(vets, c.monthlyHours, d) >= windowEnd
                    THEN windowStart
                    ELSE windowStart + StaggerIndex(vets, c.monthlyHours, d)
    IN  [c EXCEPT !.day.shifts =
            [d \in DVM |-> IF d \in vets THEN [@[d] EXCEPT !.lunchStart = lunch(d)]
                           ELSE @[d]]]

(* ------------------ scheduler.py: objective and search ----------------- *)
\* the single element of a one-element set; {e(x) : x \in {v}} binds v once
The(S) ==
    CHOOSE x \in S : TRUE

RECURSIVE SumHours(_, _, _)
SumHours(sched, days, dvm) ==
    IF days = <<>> THEN 0
    ELSE workedHours(sched[Head(days)].shifts[dvm])
         + SumHours(sched, Tail(days), dvm)

\* for wd in week: for dv in DVM: both counters += workedHours
AddWeek(acc, sched, days) ==
    [weeklyHours |-> [d \in DVM |-> acc.weeklyHours[d] + SumHours(sched, days, d)],
     monthlyHours |-> [d \in DVM |-> acc.monthlyHours[d] + SumHours(sched, days, d)]]

RECURSIVE RecalcFrom(_, _, _, _)
RecalcFrom(sched, i, batch, acc) ==
    IF i > Len(sched)
    THEN IF batch # <<>> THEN AddWeek(acc, sched, batch) ELSE acc
    ELSE The({IF Len(b) = 6
              THEN The({RecalcFrom(sched, i + 1, <<>>, a) : a \in {AddWeek(acc, sched, b)}})
              ELSE RecalcFrom(sched, i + 1, b, acc)
                : b \in {IF sched[i].isOpen THEN Append(batch, i) ELSE batch}})

_recalcHours(sched) ==
    RecalcFrom(sched, 1, <<>>, [weeklyHours |-> ZeroHours, monthlyHours |-> ZeroHours])

TargetHours(dvm) ==
    IF dvm = LP THEN 125 ELSE IF dvm = EDS THEN 0 ELSE 170

RECURSIVE SumOver(_, _)
SumOver(f, S) ==
    IF S = {} THEN 0
    ELSE LET x == CHOOSE y \in S : TRUE
         IN  f[x] + SumOver(f, S \ {x})

\* dates of the Saturdays dvm works, sorted
RECURSIVE SatDates(_, _, _)
SatDates(sched, i, dvm) ==
    IF i > Len(sched) THEN <<>>
    ELSE IF sched[i].weekday = 5 /\ isWorking(sched[i], dvm)
         THEN <<sched[i].date>> \o SatDates(sched, i + 1, dvm)
         ELSE SatDates(sched, i + 1, dvm)

BackToBack(sched, dvm) ==
    The({Cardinality({i \in 2..Len(dates) : dates[i] - dates[i - 1] = 7})
            : dates \in {SortSeq(SatDates(sched, 1, dvm), LAMBDA a, b : a < b)}})

FullLength(day, sh) ==
    IF day.weekday = 4 /\ sh.dayType = SURGERY THEN 8
    ELSE IF day.weekday < 2 THEN 12 ELSE 10

HalfDays(sched) ==
    Cardinality({p \in (1..Len(sched)) \X DVM :
        LET sh == sched[p[1]].shifts[p[2]]
        IN  /\ sh.clockIn # None
            /\ sh.clockOut # None
            /\ sh.clockOut - sh.clockIn + 1 < FullLength(sched[p[1]], sh)})

_evaluate(sched, hours) ==
    The({SumOver(sq, DVM) : sq \in
            {[d \in DVM |-> (hours[d] - TargetHours(d)) * (hours[d] - TargetHours(d))]}})
    + 100 * The({SumOver(b2b, DVM) : b2b \in {[d \in DVM |-> BackToBack(sched, d)]}})
    + 10 * HalfDays(sched)

\* mutant of SwapShifts: the fields are assigned one after the other, so the
\* second worker keeps its own values and the first becomes a copy of it
SwapShiftsSequential(sched, idx, i, j) ==
    LET s2 == sched[idx].shifts[j]
    IN  [sched EXCEPT
            ![idx].shifts[i] = [@ EXCEPT !.clockIn = s2.clockIn,
                                         !.clockOut = s2.clockOut,
                                         !.dayType = s2.dayType,
                                         !.lunchStart = s2.lunchStart]]

\* the neighbour of _neighbors for day idx and workers i < j
SwapShifts(sched, idx, i, j) ==
    LET s1 == sched[idx].shifts[i]
        s2 == sched[idx].shifts[j]
    IN  [sched EXCEPT
            ![idx].shifts[i] = [s1 EXCEPT !.clockIn = s2.clockIn,
                                          !.clockOut = s2.clockOut,
                                          !.dayType = s2.dayType,
                                          !.lunchStart = s2.lunchStart],
            ![idx].shifts[j] = [s2 EXCEPT !.clockIn = s1.clockIn,
                                          !.clockOut = s1.clockOut,
                                          !.dayType = s1.dayType,
                                          !.lunchStart = s1.lunchStart]]

\* mutant of IsNeighbor: the inner loop runs over every other worker, so
\* each pair is yielded in both orders
IsNeighborBothOrders(sched, idx, i, j) ==
    /\ sched[idx].isOpen
    /\ i # j
    /\ isWorking(sched[idx], i)
    /\ isWorking(sched[idx], j)

\* _neighbors yields one for this (day, pair)
IsNeighbor(sched, idx, i, j) ==
    /\ sched[idx].isOpen
    /\ i < j
    /\ isWorking(sched[idx], i)
    /\ isWorking(sched[idx], j)

\* nb._recalcHours(); sc = nb._evaluate()
NeighborScore(sched, idx, i, j) ==
    The({The({_evaluate(nb, hrs.monthlyHours) : hrs \in {_recalcHours(nb)}})
            : nb \in {SwapShifts(sched, idx, i, j)}})

\* mutant of Improves: a neighbour of equal score is adopted too
ImprovesOrEqual(sc, best) ==
    sc <= best

\* if sc < bestScore
Improves(sc, best) ==
    sc < best

\* the pairs (i, j) of day idx whose neighbour is adopted on sight
ImprovingPairs(sched, best, idx) ==
    {p \in DVM \X DVM :
        /\ IsNeighbor(sched, idx, p[1], p[2])
        /\ Improves(NeighborScore(sched, idx, p[1], p[2]), best)}

\* the first pair of a day in the order of `for i ...: for j in range(i+1, ...)`
FirstPair(pairs) ==
    CHOOSE p \in pairs : \A q \in pairs :
        \/ p[1] < q[1]
        \/ (p[1] = q[1] /\ p[2] <= q[2])

\* the first neighbour, in generation order, that is adopted; <<>> if none
RECURSIVE FirstImproving(_, _, _)
FirstImproving(sched, best, idx) ==
    IF idx > Len(sched) THEN <<>>
    ELSE The({IF good = {} THEN FirstImproving(sched, best, idx + 1)
              ELSE <<idx, FirstPair(good)[1], FirstPair(good)[2]>>
                : good \in {ImprovingPairs(sched, best, idx)}})

(* ------------------------------- actions ------------------------------- *)
NoCall == <<>>
NoCurrent == <<>>

Init ==
    /\ firstWeekday \in 0..6
    /\ satSurgeon \in DVM
    /\ satSurgeonDayOff \in 0..MaxSatOff
    /\ \E a \in ArgChoices, n \in {0, monthStartOffset(firstWeekday)} :
          args = [closedDict |-> a.closedDict,
                  vacationArray |-> a.vacationArray,
                  prevDays |-> PrevDaysOf(n)]
    /\ schedule = <<>>
    /\ saturdayRecord = [d \in DVM |-> <<>>]
    /\ weeklyHours = ZeroHours
    /\ monthlyHours = ZeroHours
    /\ pc = "init"
    /\ dayIdx = 0
    /\ week = <<>>
    /\ wpos = 0
    /\ rule = "none"
    /\ cur = NoCurrent
    /\ bestScore = 0
    /\ call = NoCall

\* Scheduler.__init__ raises: wrong number of prior-month days
ConstructFails ==
    /\ pc = "init"
    /\ PrevDaysRejected(firstWeekday, args.prevDays)
    /\ pc' = "config_error"
    /\ args' = <<>>
    /\ UNCHANGED <<firstWeekday, satSurgeon, satSurgeonDayOff, schedule,
                   saturdayRecord, weeklyHours, monthlyHours, dayIdx, week,
                   wpos, rule, cur, bestScore, call>>

\* Scheduler.__init__ returns
Construct ==
    /\ pc = "init"
    /\ ~PrevDaysRejected(firstWeekday, args.prevDays)
    /\ schedule' = BuildSchedule(firstWeekday, args.closedDict,
                                 args.vacationArray, args.prevDays)
    /\ saturdayRecord' = [d \in DVM |-> <<>>]
    /\ pc' = "ready"
    /\ args' = <<>>
    /\ UNCHANGED <<firstWeekday, satSurgeon, satSurgeonDayOff, weeklyHours,
                   monthlyHours, dayIdx, week, wpos, rule, cur, bestScore, call>>

\* generateSchedule: the counters are initialised, the loop starts
GenerateStart ==
    /\ pc = "ready"
    /\ weeklyHours' = ZeroHours
    /\ monthlyHours' = ZeroHours
    /\ week' = <<>>
    /\ dayIdx' = 1
    /\ pc' = "scan"
    /\ UNCHANGED <<args, firstWeekday, satSurgeon, satSurgeonDayOff, schedule,
                   saturdayRecord, wpos, rule, cur, bestScore, call>>

\* one iteration of `for day in self.schedule`
ScanDay ==
    /\ pc = "scan"
    /\ dayIdx <= Len(schedule)
    /\ LET w == IF schedule[dayIdx].isOpen THEN Append(week, dayIdx) ELSE week
       IN  /\ week' = w
           /\ IF Len(w) = 6
              THEN /\ weeklyHours' = ZeroHours
                   /\ pc' = "cascade"
                   /\ wpos' = 1
                   /\ rule' = "LOfixed"
                   /\ dayIdx' = dayIdx
              ELSE /\ dayIdx' = dayIdx + 1
                   /\ UNCHANGED <<weeklyHours, pc, wpos, rule>>
    /\ UNCHANGED <<args, firstWeekday, satSurgeon, satSurgeonDayOff, schedule,
                   saturdayRecord, monthlyHours, cur, bestScore, call>>

\* after the loop: the last, shorter batch, if any
ScanEnd ==
    /\ pc = "scan"
    /\ dayIdx > Len(schedule)
    /\ IF week # <<>>
       THEN /\ weeklyHours' = ZeroHours
            /\ pc' = "cascade"
            /\ wpos' = 1
            /\ rule' = "LOfixed"
       ELSE /\ pc' = "climbStart"
            /\ UNCHANGED <<weeklyHours, wpos, rule>>
    /\ UNCHANGED <<args, firstWeekday, satSurgeon, satSurgeonDayOff, schedule,
                   saturdayRecord, monthlyHours, dayIdx, week, cur, bestScore,
                   call>>

\* _scheduleDay returns: the next day of the batch, or back to the loop
EndDay ==
    IF wpos < Len(week)
    THEN /\ wpos' = wpos + 1
         /\ rule' = "LOfixed"
         /\ UNCHANGED <<pc, week, dayIdx>>
    ELSE /\ wpos' = 0
         /\ rule' = "none"
         /\ week' = <<>>
         /\ pc' = "scan"
         /\ dayIdx' = IF dayIdx > Len(schedule) THEN dayIdx ELSE dayIdx + 1

Commit(c) ==
    /\ schedule' = [schedule EXCEPT ![week[wpos]] = c.day]
    /\ weeklyHours' = c.weeklyHours
    /\ monthlyHours' = c.monthlyHours
    /\ saturdayRecord' = c.saturdayRecord

\* a rule of the cascade runs; a ValueError of setVet ends generateSchedule
RuleStep(c, nextRule) ==
    /\ UNCHANGED <<args, firstWeekday, satSurgeon, satSurgeonDayOff, cur,
                   bestScore, call>>
    /\ IF c.raised
       THEN /\ pc' = "raised"
            /\ UNCHANGED <<schedule, weeklyHours, monthlyHours, saturdayRecord,
                           dayIdx, week, wpos, rule>>
       ELSE /\ Commit(c)
            /\ IF nextRule = "return"
               THEN EndDay
               ELSE /\ rule' = nextRule
                    /\ UNCHANGED <<pc, dayIdx, week, wpos>>

RuleLOFixed ==
    /\ pc = "cascade" /\ rule = "LOfixed"
    /\ IF ReturnsEarly(Ctx.day)
       THEN RuleStep(Ctx, "return")
       ELSE RuleStep(LOFixedRule(Ctx), "JAboth")

RuleJABoth ==
    /\ pc = "cascade" /\ rule = "JAboth"
    /\ RuleStep(JABothRule(Ctx), "LPfriday")

RuleLPFriday ==
    /\ pc = "cascade" /\ rule = "LPfriday"
    /\ RuleStep(LPFridayRule(Ctx), "surgeon")

RuleRoutineSurgeon ==
    /\ pc = "cascade" /\ rule = "surgeon"
    /\ RuleStep(RoutineSurgeonRule(Ctx),
                IF Ctx.day.weekday = 5 THEN "satSurgeon" ELSE "appointments")

RuleSaturdaySurgeon ==
    /\ pc = "cascade" /\ rule = "satSurgeon"
    /\ RuleStep(SaturdaySurgeonRule(Ctx), "satAppointments")

RuleSaturdayAppointments ==
    /\ pc = "cascade" /\ rule = "satAppointments"
    /\ RuleStep(SaturdayAppointmentsRule(Ctx), "fallback")

RuleAppointments ==
    /\ pc = "cascade" /\ rule = "appointments"
    /\ RuleStep(AppointmentsRule(Ctx), "extra")

RuleExtraAppointment ==
    /\ pc = "cascade" /\ rule = "extra"
    /\ RuleStep(ExtraAppointmentRule(Ctx), "fallback")

RuleFallback ==
    /\ pc = "cascade" /\ rule = "fallback"
    /\ RuleStep(FallbackRule(Ctx), "stagger")

RuleStaggerLunches ==
    /\ pc = "cascade" /\ rule = "stagger"
    /\ RuleStep(_staggerLunches(Ctx), "return")

\* _hillClimb: current = self; bestScore = current._evaluate()
ClimbStart ==
    /\ pc = "climbStart"
    /\ cur' = [schedule |-> schedule, weeklyHours |-> weeklyHours,
               monthlyHours |-> monthlyHours]
    /\ bestScore' = _evaluate(schedule, monthlyHours)
    /\ pc' = "climb"
    /\ UNCHANGED <<args, firstWeekday, satSurgeon, satSurgeonDayOff, schedule,
                   saturdayRecord, weeklyHours, monthlyHours, dayIdx, week,
                   wpos, rule, call>>

\* one pass of `while improved`: the first improving neighbour is adopted
\* and the scan restarts, or no neighbour improves and the loop ends
ClimbPass ==
    /\ pc = "climb"
    /\ \E f \in {FirstImproving(cur.schedule, bestScore, 1)} :
          IF f # <<>>
          THEN \E nb \in {SwapShifts(cur.schedule, f[1], f[2], f[3])} :
               \E hrs \in {_recalcHours(nb)} :
                  /\ cur' = [schedule |-> nb, weeklyHours |-> hrs.weeklyHours,
                             monthlyHours |-> hrs.monthlyHours]
                  /\ bestScore' = _evaluate(nb, hrs.monthlyHours)
                  /\ pc' = pc
          ELSE /\ pc' = "adopt"
               /\ UNCHANGED <<cur, bestScore>>
    /\ UNCHANGED <<args, firstWeekday, satSurgeon, satSurgeonDayOff, schedule,
                   saturdayRecord, weeklyHours, monthlyHours, dayIdx, week,
                   wpos, rule, call>>

\* adopt best
Adopt ==
    /\ pc = "adopt"
    /\ schedule' = cur.schedule
    /\ weeklyHours' = cur.weeklyHours
    /\ monthlyHours' = cur.monthlyHours
    /\ pc' = "done"
    /\ UNCHANGED <<args, firstWeekday, satSurgeon, satSurgeonDayOff,
                   saturdayRecord, dayIdx, week, wpos, rule, cur, bestScore,
                   call>>

Next ==
    \/ ConstructFails
    \/ Construct
    \/ GenerateStart
    \/ ScanDay
    \/ ScanEnd
    \/ RuleLOFixed
    \/ RuleJABoth
    \/ RuleLPFriday
    \/ RuleRoutineSurgeon
    \/ RuleSaturdaySurgeon
    \/ RuleSaturdayAppointments
    \/ RuleAppointments
    \/ RuleExtraAppointment
    \/ RuleFallback
    \/ RuleStaggerLunches
    \/ ClimbStart
    \/ ClimbPass
    \/ Adopt

Spec == Init /\ [][Next]_vars

(* ---------------- WorkDay.setVet called directly on a day -------------- *)
\* clock hours offered to setVet: below, at and above the limits 8 and 19
ClockChoices == {7, 8, 14, 19, 20}

\* the day before the call: every worker that setVet accepts already holds
\* an 8-13 appointment shift with lunch at 12
RECURSIVE PrePlaced(_, _)
PrePlaced(day, dvm) ==
    IF dvm > EDS THEN day
    ELSE PrePlaced(setVet(day, dvm, 8, 13, APPOINTMENT, 12), dvm + 1)

RECURSIVE AllOnVacation(_, _, _)
AllOnVacation(day, dvm, window) ==
    IF dvm > EDS THEN day
    ELSE AllOnVacation(setVacation(day, dvm, window[1], window[2]), dvm + 1, window)

SetVetInit ==
    /\ \E weekday \in 0..5, placed \in BOOLEAN,
          window \in VacationWindows \cup {NoVacation} :
          LET d0 == WorkDay(weekday, 1, "target", TRUE)
              d1 == IF window = NoVacation THEN d0 ELSE AllOnVacation(d0, LO, window)
              d2 == IF placed THEN PrePlaced(d1, LO) ELSE d1
          IN  schedule = <<d2>>
    /\ call = NoCall
    /\ pc = "workday"
    /\ args = <<>>
    /\ firstWeekday = 0
    /\ satSurgeon = LO
    /\ satSurgeonDayOff = 0
    /\ saturdayRecord = [d \in DVM |-> <<>>]
    /\ weeklyHours = ZeroHours
    /\ monthlyHours = ZeroHours
    /\ dayIdx = 0
    /\ week = <<>>
    /\ wpos = 0
    /\ rule = "none"
    /\ cur = NoCurrent
    /\ bestScore = 0

\* day.setVet(dvm, clockIn, clockOut, dayType, lunchStart)
SetVetCall ==
    /\ pc = "workday"
    /\ call = NoCall
    /\ \E dvm \in DVM, clockIn \in ClockChoices, clockOut \in ClockChoices,
          dayType \in DAY_TYPE \cup {NoType}, lunchStart \in {None, 12} :
          /\ call' = [dvm |-> dvm, clockIn |-> clockIn, clockOut |-> clockOut,
                      dayType |-> dayType, lunchStart |-> lunchStart,
                      before |-> schedule[1],
                      raised |-> setVetRaises(schedule[1], dvm, clockIn,
                                              clockOut, dayType)]
          /\ schedule' = <<setVet(schedule[1], dvm, clockIn, clockOut,
                                  dayType, lunchStart)>>
    /\ UNCHANGED <<args, firstWeekday, satSurgeon, satSurgeonDayOff,
                   saturdayRecord, weeklyHours, monthlyHours, pc, dayIdx, week,
                   wpos, rule, cur, bestScore>>

SetVetNext ==
    SetVetCall

SetVetSpec == SetVetInit /\ [][SetVetNext]_vars

\* _hillClimb runs on: the start, each pass of the loop and the final
\* adoption are not put off forever
FairSpec ==
    Spec /\ WF_vars(ClimbStart) /\ WF_vars(ClimbPass) /\ WF_vars(Adopt)

(* ------------- Scheduler.__init__ over a wider argument range ---------- *)
\* largest number of prior-month days offered to the constructor
MaxPrevDays == 5

\* at most one closed day or one vacation request, on any date of the month
ConstructArgChoices ==
    {[closedDict |-> {}, vacationArray |-> NoVacations]}
    \cup {[closedDict |-> {c}, vacationArray |-> NoVacations]
            : c \in 1..numDays}
    \cup {[closedDict |-> {},
           vacationArray |-> [NoVacations EXCEPT ![r[1]] = <<<<r[2], r[3][1], r[3][2]>>>>]]
            : r \in DVM \X (1..numDays) \X VacationWindows}

\* the constructor is called with any number 0..MaxPrevDays of prior-month
\* days (None and the empty list both count as 0 days)
ConstructInit ==
    /\ firstWeekday \in 0..6
    /\ satSurgeon \in DVM
    /\ satSurgeonDayOff = 0
    /\ \E a \in ConstructArgChoices, n \in 0..MaxPrevDays :
          args = [closedDict |-> a.closedDict,
                  vacationArray |-> a.vacationArray,
                  prevDays |-> PrevDaysOf(n)]
    /\ schedule = <<>>
    /\ saturdayRecord = [d \in DVM |-> <<>>]
    /\ weeklyHours = ZeroHours
    /\ monthlyHours = ZeroHours
    /\ pc = "init"
    /\ dayIdx = 0
    /\ week = <<>>
    /\ wpos = 0
    /\ rule = "none"
    /\ cur = NoCurrent
    /\ bestScore = 0
    /\ call = NoCall

ConstructNext ==
    \/ ConstructFails
    \/ Construct

ConstructSpec == ConstructInit /\ [][ConstructNext]_vars

(* ----------- WorkDay.ableToSchedule called directly on a day ----------- *)
\* vacation windows offered to ableToSchedule: the whole day, an afternoon,
\* one ending at the opening hour and one starting at the last hour
AbleWindows == VacationWindows \cup {<<0, 8>>, <<19, 24>>}

AbleInit ==
    /\ \E weekday \in 0..5, window \in AbleWindows \cup {NoVacation} :
          LET d0 == WorkDay(weekday, 1, "target", TRUE)
          IN  schedule = <<IF window = NoVacation THEN d0
                           ELSE AllOnVacation(d0, LO, window)>>
    /\ call = NoCall
    /\ pc = "ableToSchedule"
    /\ args = <<>>
    /\ firstWeekday = 0
    /\ satSurgeon = LO
    /\ satSurgeonDayOff = 0
    /\ saturdayRecord = [d \in DVM |-> <<>>]
    /\ weeklyHours = ZeroHours
    /\ monthlyHours = ZeroHours
    /\ dayIdx = 0
    /\ week = <<>>
    /\ wpos = 0
    /\ rule = "none"
    /\ cur = NoCurrent
    /\ bestScore = 0

\* day.ableToSchedule(dvm, clockIn, clockOut): raises on invalid clock
\* times, else returns a boolean; the day is not written
AbleCall ==
    /\ pc = "ableToSchedule"
    /\ call = NoCall
    /\ \E dvm \in DVM, clockIn \in ClockChoices, clockOut \in ClockChoices :
          call' = [dvm |-> dvm, clockIn |-> clockIn, clockOut |-> clockOut,
                   before |-> schedule[1],
                   raised |-> ~ClockTimesValid(clockIn, clockOut),
                   result |-> IF ClockTimesValid(clockIn, clockOut)
                              THEN ableToSchedule(schedule[1], dvm, clockIn,
                                                  clockOut)
                              ELSE FALSE]
    /\ UNCHANGED <<args, firstWeekday, satSurgeon, satSurgeonDayOff, schedule,
                   saturdayRecord, weeklyHours, monthlyHours, pc, dayIdx, week,
                   wpos, rule, cur, bestScore>>

AbleNext ==
    AbleCall

AbleSpec == AbleInit /\ [][AbleNext]_vars

(* ------------------------------ properties ----------------------------- *)
\* the Mon-Sat calendar week of day i: the number of Mondays up to i
WeekOf(sched, i) ==
    Cardinality({k \in 1..i : sched[k].weekday = 0})

\* a worker's hours over the days of calendar week w
WeekHours(sched, dvm, w) ==
    SumOver([i \in 1..Len(sched) |-> workedHours(sched[i].shifts[dvm])],
            {i \in 1..Len(sched) : WeekOf(sched, i) = w})

\* a worker's hours over the open days of the schedule
ShiftHours(sched, dvm) ==
    SumOver([i \in 1..Len(sched) |-> workedHours(sched[i].shifts[dvm])],
            {i \in 1..Len(sched) : sched[i].isOpen})

\* the schedules of a state: self.schedule and, in _hillClimb, current.schedule
Schedules ==
    {schedule} \cup (IF cur = NoCurrent THEN {} ELSE {cur.schedule})

\* C1: when generateSchedule has returned, every worker's worked hours over
\* the days of each Monday-Saturday calendar week are at most 40.
C1_WeeklyCap ==
    pc = "done" =>
        \A d \in DVM : \A w \in 0..Len(schedule) :
            WeekHours(schedule, d, w) <= 40

\* generateSchedule has returned and some worker has a 38-hour week
C1_Witness ==
    /\ pc = "done"
    /\ \E d \in DVM : \E w \in 1..Len(schedule) : WeekHours(schedule, d, w) >= 38

\* C2: when generateSchedule has returned, monthlyHours of every worker is
\* the sum of the worked hours of that worker's shifts over the open days.
C2_TallyMatchesShifts ==
    pc = "done" =>
        \A d \in DVM : monthlyHours[d] = ShiftHours(schedule, d)

\* no worker holds clock times on a standard-off day or across a vacation
NoConflict(sched) ==
    \A i \in 1..Len(sched) : \A d \in DVM :
        LET sh == sched[i].shifts[d]
        IN  (sh.clockIn # None /\ sh.clockOut # None) =>
                /\ ~sh.standardOff
                /\ ~(sh.vacation # NoVacation
                     /\ sh.clockIn < sh.vacation[2]
                     /\ sh.clockOut > sh.vacation[1])

\* C3: in every schedule reached during generateSchedule, after each greedy
\* placement and after each accepted swap, no worker has clock times on a
\* standard-off day or overlapping that worker's vacation window.
C3_NoShiftOnOffOrVacation ==
    \A sched \in Schedules : NoConflict(sched)

\* EDS never holds SURGERY; only LO and JA hold BOTH
DutiesEligible(sched) ==
    \A i \in 1..Len(sched) :
        /\ sched[i].shifts[EDS].dayType # SURGERY
        /\ \A d \in DVM \ {LO, JA} : sched[i].shifts[d].dayType # BOTH

\* C4: in every schedule reached during generateSchedule, including after
\* each accepted swap, EDS never holds a SURGERY shift and only LO and JA
\* hold BOTH shifts.
C4_DutyEligibility ==
    \A sched \in Schedules : DutiesEligible(sched)

\* the conditions under which setVet must reject a call
MustReject(sh, dvm, clockIn, clockOut, dayType) ==
    \/ clockIn \notin 8..19
    \/ clockOut \notin 8..19
    \/ ~(clockIn < clockOut)
    \/ sh.standardOff
    \/ (sh.vacation # NoVacation
        /\ clockIn < sh.vacation[2] /\ clockOut > sh.vacation[1])
    \/ (dayType = SURGERY /\ dvm = EDS)
    \/ (dayType = BOTH /\ dvm \notin {LO, JA})

\* C5: setVet raises and leaves the shift unchanged whenever the clock times
\* are outside 8..19 or not clockIn < clockOut, the worker is standard-off,
\* the block overlaps the vacation window, the duty is SURGERY for EDS or
\* BOTH for a worker other than LO and JA; otherwise it sets exactly
\* clockIn, clockOut, dayType and lunchStart of that worker's shift.
C5_SetVetContract ==
    call # NoCall =>
        LET before == call.before.shifts[call.dvm]
        IN  IF MustReject(before, call.dvm, call.clockIn, call.clockOut,
                          call.dayType)
            THEN call.raised /\ schedule[1] = call.before
            ELSE /\ ~call.raised
                 /\ schedule[1] =
                      [call.before EXCEPT !.shifts[call.dvm] =
                          [clockIn |-> call.clockIn, clockOut |-> call.clockOut,
                           dayType |-> call.dayType,
                           lunchStart |-> call.lunchStart,
                           dayNum |-> before.dayNum,
                           vacation |-> before.vacation,
                           standardOff |-> before.standardOff]]

\* a call rejected by the role rule alone, on a worker who holds a shift
C5_Witness ==
    /\ call # NoCall
    /\ call.raised
    /\ call.dvm = EDS /\ call.dayType = SURGERY
    /\ call.clockIn = 8 /\ call.clockOut = 14
    /\ call.before.shifts[EDS].clockIn # None
    /\ call.before.shifts[EDS].vacation # NoVacation

\* C6: every candidate _hillClimb adopts has a strictly lower score than the
\* schedule it replaces, each scored by _evaluate with its own tallies.
C6_ScoreStrictlyDecreases ==
    [][(pc = "climb" /\ cur' # cur) =>
          /\ bestScore' < bestScore
          /\ _evaluate(cur'.schedule, cur'.monthlyHours)
               < _evaluate(cur.schedule, cur.monthlyHours)]_vars

\* a swap has been adopted and the best score is below the starting score
C6_Witness ==
    /\ pc = "climb"
    /\ cur.schedule # schedule
    /\ bestScore < _evaluate(schedule, monthlyHours)

\* C7: _hillClimb terminates for every schedule the greedy pass produces.
C7_HillClimbTerminates ==
    (pc = "climbStart") ~> (pc = "done")

\* the loop has ended after at least one adopted swap
C7_Witness ==
    /\ pc = "adopt"
    /\ cur.schedule # schedule

\* the score of a schedule, from tallies recomputed from its shifts
TrueScore(sched) ==
    _evaluate(sched, _recalcHours(sched).monthlyHours)

\* C8: when _hillClimb has returned, no exchange of two working workers'
\* shifts on one open day has a strictly lower score than the adopted
\* schedule, both scored from tallies recomputed from the shifts.
C8_LocalOptimum ==
    pc = "done" =>
        \A i \in 1..Len(schedule) : \A p \in DVM \X DVM :
            IsNeighbor(schedule, i, p[1], p[2]) =>
                ~(NeighborScore(schedule, i, p[1], p[2]) < TrueScore(schedule))

\* C9: applying the same swap of _neighbors twice restores every shift field.
C9_SwapInvolution ==
    \A sched \in Schedules :
        \A i \in 1..Len(sched) : \A p \in DVM \X DVM :
            IsNeighbor(sched, i, p[1], p[2]) =>
                SwapShifts(SwapShifts(sched, i, p[1], p[2]), i, p[1], p[2]) = sched

\* a swap that changes the schedule is available in _hillClimb
C9_Witness ==
    /\ pc = "climb"
    /\ \E i \in 1..Len(cur.schedule) : \E p \in DVM \X DVM :
          /\ IsNeighbor(cur.schedule, i, p[1], p[2])
          /\ SwapShifts(cur.schedule, i, p[1], p[2]) # cur.schedule

\* every day open and no vacation window in the schedule
AllOpenNoVacations(sched) ==
    \A i \in 1..Len(sched) :
        /\ sched[i].isOpen
        /\ \A d \in DVM : sched[i].shifts[d].vacation = NoVacation

\* 1-based rank of day i among the Saturdays of the target month
TrueSaturdayOrdinal(sched, i) ==
    Cardinality({k \in 1..i : sched[k].weekday = 5 /\ sched[k].month = "target"})

\* C10: with every day open and no vacations, once the greedy cascade has
\* processed the target-month Saturday whose ordinal is satSurgeonDayOff,
\* the rotation surgeon has no shift that day.
C10_SurgeonOffOnDayOff ==
    (pc = "climbStart" /\ AllOpenNoVacations(schedule)) =>
        \A i \in 1..Len(schedule) :
            (/\ schedule[i].weekday = 5
             /\ schedule[i].month = "target"
             /\ TrueSaturdayOrdinal(schedule, i) = satSurgeonDayOff)
            => ~isWorking(schedule[i], satSurgeon)

\* C11: with every day open and no vacations, once the greedy cascade has
\* processed a Saturday, that day has exactly 2 APPOINTMENT shifts and the
\* rotation surgeon holds neither.
C11_SaturdayTwoAppointments ==
    (pc = "climbStart" /\ AllOpenNoVacations(schedule)) =>
        \A i \in 1..Len(schedule) :
            schedule[i].weekday = 5 =>
                /\ getNumApptsOnShift(schedule[i]) = 2
                /\ schedule[i].shifts[satSurgeon].dayType # APPOINTMENT

\* C12: when _scheduleDay runs on an open Friday on which LP passes the
\* placement check for 8..15, LP leaves the day with a SURGERY shift 8..15,
\* no lunchStart, 8 worked hours, and 8 hours more in both of LP's tallies.
C12_LPFridaySurgery ==
    [][(/\ pc = "cascade" /\ rule = "LOfixed"
        /\ schedule[week[wpos]].weekday = 4
        /\ canAddToSchedule(Ctx, LP, openHour, openHour + 7)) =>
          LET sh == schedule'[week[wpos]].shifts[LP]
          IN  /\ sh.clockIn = 8 /\ sh.clockOut = 15
              /\ sh.dayType = SURGERY
              /\ sh.lunchStart = None
              /\ workedHours(sh) = 8
              /\ weeklyHours'[LP] = weeklyHours[LP] + 8
              /\ monthlyHours'[LP] = monthlyHours[LP] + 8]_vars

\* C13: construction fails, with no WorkDay in the schedule, whenever the
\* number of prior-month days supplied differs from the leading offset, for
\* every leading offset 0..5.
C13_WrongPrevDaysRejected ==
    [][(pc = "init" /\ Len(args.prevDays) # monthStartOffset(firstWeekday)) =>
          (pc' = "config_error" /\ schedule' = <<>>)]_vars

\* C14: after construction every target-month WorkDay of date d sits at
\* index (d - 1) + monthStartOffset, and every vacation request for a
\* non-Sunday date d sets the window on the WorkDay whose date is d.
C14_DateIndexAndVacationDay ==
    [][(pc = "init" /\ pc' = "ready") =>
          /\ \A i \in 1..Len(schedule') :
                schedule'[i].month = "target" =>
                    i - 1 = (schedule'[i].date - 1) + monthStartOffset(firstWeekday)
          /\ \A r \in {q \in DVM \X (1..numDays) \X VacationWindows :
                          args.vacationArray[q[1]] = <<<<q[2], q[3][1], q[3][2]>>>>} :
                (firstWeekday + r[2] - 1) % 7 # 6 =>
                    \E i \in 1..Len(schedule') :
                        /\ schedule'[i].month = "target"
                        /\ schedule'[i].date = r[2]
                        /\ schedule'[i].shifts[r[1]].vacation = r[3]]_vars

\* the expected worked hours of a shift, by weekday and clock times alone
ExpectedHours(sh) ==
    IF sh.clockIn = None \/ sh.clockOut = None THEN 0
    ELSE (sh.clockOut - sh.clockIn + 1)
         - (IF sh.clockOut > 13
            THEN (IF sh.dayNum \in {0, 1} THEN 2 ELSE 1)
            ELSE 0)

\* C15: workedHours of a shift with clock times is clockOut - clockIn + 1
\* less 2 (Monday, Tuesday) or 1 (Wednesday-Saturday) when clockOut > 13 and
\* less nothing when clockOut <= 13, whether or not lunchStart is set; a
\* shift without clock times has 0 worked hours.
C15_WorkedHours ==
    \A i \in 1..Len(schedule) : \A d \in DVM :
        workedHours(schedule[i].shifts[d]) = ExpectedHours(schedule[i].shifts[d])

\* setVet has placed a Monday shift 8..19 without lunchStart: 10 worked hours
C15_Witness ==
    /\ call # NoCall /\ ~call.raised
    /\ call.clockIn = 8 /\ call.clockOut = 19 /\ call.lunchStart = None
    /\ schedule[1].weekday = 0
    /\ workedHours(schedule[1].shifts[call.dvm]) = 10
    /\ \E d \in DVM : /\ schedule[1].shifts[d].clockOut = 13
                      /\ schedule[1].shifts[d].lunchStart = 12
                      /\ workedHours(schedule[1].shifts[d]) = 6

\* C16: the greedy cascade never propagates a placement error of setVet.
C16_NoPlacementErrorPropagates ==
    pc # "raised"

\* _scheduleDay returns from the day week[wpos]
DayEnds ==
    pc = "cascade" /\ wpos' # wpos

\* C17: when the cascade has processed an open day, the day has at least 2
\* APPOINTMENT shifts, unless no worker who is not working passes the
\* placement check for the full-day block.
C17_AtLeastTwoAppointments ==
    [][DayEnds =>
          LET day == schedule'[week[wpos]]
              c == [day |-> day, weeklyHours |-> weeklyHours']
          IN  \/ getNumApptsOnShift(day) >= 2
              \/ \A d \in DVM :
                    \/ isWorking(day, d)
                    \/ ~canAddToSchedule(c, d, openHour, lastThroughHour(day))]_vars

\* C18: when the cascade has processed an open non-Saturday day, the day has
\* at most 3 APPOINTMENT shifts.
C18_AtMostThreeAppointments ==
    [][(DayEnds /\ schedule[week[wpos]].weekday # 5) =>
          getNumApptsOnShift(schedule'[week[wpos]]) <= 3]_vars

\* C19: within a day's cascade a rule leaves the clock times, the duty type
\* and the hour counters of every worker already working that day as they
\* are, and lunch staggering changes nothing but lunchStart.
C19_EarlierRulesLocked ==
    [][(pc = "cascade" /\ pc' # "raised") =>
          LET before == schedule[week[wpos]]
              after == schedule'[week[wpos]]
          IN  /\ \A d \in DVM :
                    isWorking(before, d) =>
                        /\ after.shifts[d].clockIn = before.shifts[d].clockIn
                        /\ after.shifts[d].clockOut = before.shifts[d].clockOut
                        /\ after.shifts[d].dayType = before.shifts[d].dayType
                        /\ weeklyHours'[d] = weeklyHours[d]
                        /\ monthlyHours'[d] = monthlyHours[d]
              /\ rule = "stagger" =>
                    \A d \in DVM :
                        after.shifts[d] =
                            [before.shifts[d] EXCEPT
                                !.lunchStart = after.shifts[d].lunchStart]]_vars

\* C20: during the greedy pass no weeklyHours counter exceeds 40, and for
\* every shift placed the hours estimated by the placement check,
\* end - start + 1 - getLunchLength(end), are the hours the shift counts.
C20_WeeklyCounterWithinCap ==
    pc \in {"scan", "cascade", "climbStart"} =>
        /\ \A d \in DVM : weeklyHours[d] <= 40
        /\ \A i \in 1..Len(schedule) : \A d \in DVM :
              LET sh == schedule[i].shifts[d]
              IN  (sh.clockIn # None /\ sh.clockOut # None) =>
                      sh.clockOut - sh.clockIn + 1
                        - getLunchLength(schedule[i], sh.clockOut)
                      = workedHours(sh)


\* C21: every batch of days over which weeklyHours accumulates between two
\* resets of generateSchedule lies inside one Monday-Saturday calendar week,
\* closed days included
C21_BatchIsOneCalendarWeek ==
    pc = "cascade" =>
        \A a \in 1..Len(week) : \A b \in 1..Len(week) :
            WeekOf(schedule, week[a]) = WeekOf(schedule, week[b])


\* C22: when the Saturday rule runs on a Saturday of the target month, the
\* ordinal it computes is that Saturday's 1-based rank among the target
\* month's Saturdays, whatever padding days the schedule holds
C22_SaturdayOrdinalIsRank ==
    (pc = "cascade" /\ rule = "satSurgeon" /\ Ctx.day.month = "target") =>
        SaturdayOrdinal(schedule, Ctx.day)
            = TrueSaturdayOrdinal(schedule, week[wpos])


\* the lunch intervals [lunchStart, lunchStart + LUNCH_LENGTH) of two
\* workers of a day share an hour
LunchesOverlap(day, d, e) ==
    /\ day.shifts[d].lunchStart # None
    /\ day.shifts[e].lunchStart # None
    /\ day.shifts[d].lunchStart
           < day.shifts[e].lunchStart + LUNCH_LENGTH(day.weekday)
    /\ day.shifts[e].lunchStart
           < day.shifts[d].lunchStart + LUNCH_LENGTH(day.weekday)

\* C23: after _staggerLunches has run on a day, no two workers of that day
\* have overlapping lunch intervals (2 hours long on Monday and Tuesday,
\* 1 hour otherwise)
C23_NoLunchOverlap ==
    [][(pc = "cascade" /\ rule = "stagger") =>
          \A d \in DVM : \A e \in DVM \ {d} :
              ~LunchesOverlap(schedule'[week[wpos]], d, e)]_vars


\* a worked hour of the block clockIn .. clockOut (clockOut is the last hour
\* worked through, as workedHours counts it) lies in the vacation window
\* [start, end)
WorkedHourInVacation(sh, clockIn, clockOut) ==
    /\ sh.vacation # NoVacation
    /\ \E h \in clockIn..clockOut : sh.vacation[1] <= h /\ h < sh.vacation[2]

\* C24: ableToSchedule returns False for every block with a worked hour
\* inside the worker's vacation window, and True only when the worker is
\* not standard-off and no worked hour falls inside the window
C24_AbleToScheduleExcludesVacation ==
    (pc = "ableToSchedule" /\ call # NoCall /\ ~call.raised) =>
        (call.result <=>
            /\ ~call.before.shifts[call.dvm].standardOff
            /\ ~WorkedHourInVacation(call.before.shifts[call.dvm],
                                     call.clockIn, call.clockOut))


\* nb equals sched except that, on day idx, workers i and j have exchanged
\* clockIn, clockOut, dayType and lunchStart
SwapFrame(sched, nb, idx, i, j) ==
    /\ Len(nb) = Len(sched)
    /\ \A k \in 1..Len(sched) :
          /\ nb[k].weekday = sched[k].weekday
          /\ nb[k].date = sched[k].date
          /\ nb[k].month = sched[k].month
          /\ nb[k].isOpen = sched[k].isOpen
          /\ \A d \in DVM :
                /\ nb[k].shifts[d].dayNum = sched[k].shifts[d].dayNum
                /\ nb[k].shifts[d].vacation = sched[k].shifts[d].vacation
                /\ nb[k].shifts[d].standardOff = sched[k].shifts[d].standardOff
                /\ (k # idx \/ d \notin {i, j})
                      => nb[k].shifts[d] = sched[k].shifts[d]
    /\ \A x \in {<<i, j>>, <<j, i>>} :
          /\ nb[idx].shifts[x[1]].clockIn = sched[idx].shifts[x[2]].clockIn
          /\ nb[idx].shifts[x[1]].clockOut = sched[idx].shifts[x[2]].clockOut
          /\ nb[idx].shifts[x[1]].dayType = sched[idx].shifts[x[2]].dayType
          /\ nb[idx].shifts[x[1]].lunchStart = sched[idx].shifts[x[2]].lunchStart

\* the neighbours _neighbors yields for day idx and the two workers a, b
YieldedFor(sched, idx, a, b) ==
    {p \in DVM \X DVM : IsNeighbor(sched, idx, p[1], p[2])
                        /\ {p[1], p[2]} = {a, b}}

\* C25: a pass of _hillClimb over the neighbours of the current schedule
\* leaves self's schedule and tallies unchanged, and leaves the current
\* schedule and tallies unchanged unless a neighbour replaces it; every
\* neighbour equals the current schedule except for the exchanged clockIn,
\* clockOut, dayType and lunchStart of two workers on one open day; and
\* exactly one neighbour is yielded per open day and unordered pair of
\* workers both working that day, none otherwise
C25_NeighborsAreIndependentSwaps ==
    [][pc = "climb" =>
          /\ schedule' = schedule
          /\ weeklyHours' = weeklyHours
          /\ monthlyHours' = monthlyHours
          /\ \/ cur' = cur
             \/ \E idx \in 1..Len(cur.schedule) : \E p \in DVM \X DVM :
                   /\ IsNeighbor(cur.schedule, idx, p[1], p[2])
                   /\ SwapFrame(cur.schedule, cur'.schedule, idx, p[1], p[2])
          /\ \A idx \in 1..Len(cur.schedule) : \A a \in DVM : \A b \in DVM :
                /\ \A p \in YieldedFor(cur.schedule, idx, a, b) :
                      SwapFrame(cur.schedule,
                                SwapShifts(cur.schedule, idx, p[1], p[2]),
                                idx, p[1], p[2])
                /\ Cardinality(YieldedFor(cur.schedule, idx, a, b))
                      = IF /\ cur.schedule[idx].isOpen
                           /\ a # b
                           /\ isWorking(cur.schedule[idx], a)
                           /\ isWorking(cur.schedule[idx], b)
                        THEN 1 ELSE 0]_vars

\* _hillClimb is scanning the neighbours of a schedule it has adopted, and
\* one of them exchanges two different shifts of workers whose vacation
\* windows differ
C25_Witness ==
    /\ pc = "climb"
    /\ cur.schedule # schedule
    /\ \E idx \in 1..Len(cur.schedule) : \E p \in DVM \X DVM :
          /\ IsNeighbor(cur.schedule, idx, p[1], p[2])
          /\ SwapShifts(cur.schedule, idx, p[1], p[2]) # cur.schedule
          /\ cur.schedule[idx].shifts[p[1]].vacation
                # cur.schedule[idx].shifts[p[2]].vacation

====
